---- MODULE Spec2Model ----
(***************************************************************************)
(* tp-tree-viewer: reconstruction of the call forest from the flat trace   *)
(* event list (utils/treeTransform.ts), the expansion/search aware         *)
(* projection and the selection of the tree view (components/TreeView.tsx),*)
(* the per-method aggregation (components/PerformanceAnalysis.tsx) and the *)
(* loading of documents (components/FileUpload.tsx, App.tsx).              *)
(*                                                                         *)
(* JavaScript strings are modelled as sequences of one-character strings,  *)
(* so that template strings, toLowerCase() and includes() are computed     *)
(* rather than assumed.  Objects live in a heap (a sequence of node        *)
(* records); an object reference is its position in the heap.              *)
(***************************************************************************)
EXTENDS Integers, Sequences, FiniteSets, TLC

(* ------------------------------ bounds -------------------------------- *)
\* longest event list given to transformTreeData
MaxEvents == 3
\* largest value of the depth field of an event
MaxDepth == 2
\* most file reads in flight at one time
MaxReads == 2
\* longest flat trace given to the performance analysis
MaxCalls == 16

(* ---------------------- encodings of JS values ------------------------ *)
\* null / undefined in a numeric or value field
Null == -1
\* an absent object reference (node.parent undefined)
NoRef == 0

\* method names of the traces that are explored
MethodNames == { <<"a">>, <<"B", "a">> }

\* the class that defines each method (null for a method without one)
NoClass == <<>>
ClassOf(name) == IF name = <<"a">> THEN <<"K">> ELSE NoClass

\* what the user types into the search box
SearchTerms == { <<>>, <<"k">>, <<"B">> }

(* --------------------------- string helpers --------------------------- *)
Digits == <<"0", "1", "2", "3", "4", "5", "6", "7", "8", "9">>

RECURSIVE DecimalString(_)
\* String(n) for a non-negative integer, as a template string renders it
DecimalString(n) ==
  IF n < 10 THEN << Digits[n + 1] >>
  ELSE DecimalString(n \div 10) \o << Digits[(n % 10) + 1] >>

UpperCase == <<"A", "B", "C", "D", "E", "F", "G", "H", "I", "J", "K", "L", "M",
               "N", "O", "P", "Q", "R", "S", "T", "U", "V", "W", "X", "Y", "Z">>
LowerCase == <<"a", "b", "c", "d", "e", "f", "g", "h", "i", "j", "k", "l", "m",
               "n", "o", "p", "q", "r", "s", "t", "u", "v", "w", "x", "y", "z">>

\* String.prototype.toLowerCase on the characters of the model
ToLowerCase(str) ==
  [ i \in 1 .. Len(str) |->
      IF \E k \in 1 .. Len(UpperCase) : UpperCase[k] = str[i]
      THEN LowerCase[CHOOSE k \in 1 .. Len(UpperCase) : UpperCase[k] = str[i]]
      ELSE str[i] ]

\* String.prototype.includes
Includes(str, sub) ==
  \E i \in 0 .. (Len(str) - Len(sub)) : SubSeq(str, i + 1, i + Len(sub)) = sub

\* `${depth}-${method_name}`
CallKey(depth, method_name) == DecimalString(depth) \o <<"-">> \o method_name

\* `node-${index}`
NodeId(index) == <<"n", "o", "d", "e", "-">> \o DecimalString(index)

(* ------------------------------- events ------------------------------- *)
EventKinds == {"call", "return", "call_return"}

\* The trace event at (0-based) position i of the input, of the given kind,
\* method and depth.  The payload is tagged with the position so that every
\* event carries values no other event carries: parameters on call and
\* call_return, return_value/end_time/duration on return and call_return.
\* A call event has no return value yet (the tracer emits null).
TraceEvent(i, kind, name, depth) ==
  [ event         |-> kind,
    method_name   |-> name,
    defined_class |-> ClassOf(name),
    parameters    |-> IF kind = "return" THEN Null ELSE 10 + i,
    return_value  |-> IF kind = "call" THEN Null ELSE 20 + i,
    depth         |-> depth,
    start_time    |-> IF kind = "return" THEN Null ELSE 30 + i,
    end_time      |-> IF kind = "call" THEN Null ELSE 40 + i,
    duration      |-> IF kind = "call" THEN Null ELSE 1 + i ]

Shapes == EventKinds \X MethodNames \X (0 .. MaxDepth)

\* the event list with the given kinds, methods and depths
EventList(s) ==
  [ i \in 1 .. Len(s) |-> TraceEvent(i - 1, s[i][1], s[i][2], s[i][3]) ]

\* What the text handed to the application parses to:
\*   "array"      a bare array of events
\*   "envelope"   { version, timestamp, events: [...] }
\*   "noEvents"   { version, timestamp } (no events property)
\*   "scalar"     a number, a string, a boolean or null
\*   "junkArray"  [{}]: an array whose element is not an event
\*   "notJson"    nothing: JSON.parse throws
DocKinds == { "array", "envelope", "noEvents", "scalar", "junkArray", "notJson" }

\* the element of [{}] as transformTreeData reads it: every property is
\* undefined (the empty string stands for the undefined method name)
JunkElement ==
  [ event         |-> "undefined",
    method_name   |-> <<>>,
    defined_class |-> NoClass,
    parameters    |-> Null,
    return_value  |-> Null,
    depth         |-> Null,
    start_time    |-> Null,
    end_time      |-> Null,
    duration      |-> Null ]

\* values of the duration field in the traces given to the analysis
DurationValues == { Null, 0, 1, 2, 3 }

\* the same, for the traces whose totals are taken
TotalsDurations == { Null, 0, 2 }

\* depths in the traces given to the analysis
PerfDepths == { 0, 1 }

\* the call_return event at position i with the given duration
TimedEvent(i, name, depth, duration) ==
  [ TraceEvent(i, "call_return", name, depth) EXCEPT !.duration = duration ]

TimedEventList(s) ==
  [ i \in 1 .. Len(s) |-> TimedEvent(i - 1, s[i][1], s[i][2], s[i][3]) ]

(* ------------------------------- state -------------------------------- *)
VARIABLES
  events,     \* the argument of transformTreeData
  docKind,    \* what the text at hand parses to (see DocKinds)
  index,      \* forEach: number of events already processed
  heap,       \* the TreeNodeDisplay objects created so far
  nodes,      \* const nodes: references of the root nodes
  stack,      \* const stack: references of the open nodes, top last
  callStack,  \* const callStack: call key -> reference of the pending call
  treeData,         \* App: the forest on display, or null
  metadata,         \* App: metadata of the document on display, or null
  error,            \* App: error
  reads,            \* file reads in flight started by the mounted FileUpload
  staleReads,       \* file reads in flight started by an unmounted FileUpload
  isLoading,        \* FileUpload: isLoading
  expandedNodes,    \* TreeView: ids of the expanded nodes
  searchTerm,       \* TreeView: searchTerm
  showOnlyFiltered, \* TreeView: showOnlyFiltered
  selectedNode,     \* TreeView: selectedNode
  activeTab,        \* TreeView: activeTab
  lastOp            \* the handler that ran last (observation only)

transformVars == << index, heap, nodes, stack, callStack >>
inputVars == << events, docKind >>
appVars == << treeData, metadata, error, reads, staleReads, isLoading >>
viewVars == << expandedNodes, searchTerm, showOnlyFiltered, selectedNode,
              activeTab >>
vars == << inputVars, transformVars, appVars, viewVars, lastOp >>

(* ------------------------- transformTreeData -------------------------- *)
\* delete obj[key]
DeleteKey(obj, key) == [ k \in (DOMAIN obj) \ {key} |-> obj[k] ]

\* obj[key] = value
SetKey(obj, key, value) ==
  [ k \in (DOMAIN obj) \cup {key} |-> IF k = key THEN value ELSE obj[k] ]

\* the local state of one run of transformTreeData
TState(h, n, s, c) == [ heap |-> h, nodes |-> n, stack |-> s, callStack |-> c ]

TStart == TState(<<>>, <<>>, <<>>, <<>>)

\* the merge with the duration assignment left out
MergeReturn_NoDuration(st, event) ==
  LET callKey == CallKey(event.depth, event.method_name) IN
  IF callKey \in DOMAIN st.callStack
  THEN LET callNode == st.callStack[callKey] IN
       [ st EXCEPT !.heap[callNode].return_value = event.return_value,
                   !.heap[callNode].end_time = event.end_time,
                   !.callStack = DeleteKey(st.callStack, callKey) ]
  ELSE st

\* the merge without the `if (callNode)` test: an unmatched return is
\* written to the most recently created node
MergeReturn_Unguarded(st, event) ==
  LET callKey == CallKey(event.depth, event.method_name)
      callNode == IF callKey \in DOMAIN st.callStack
                  THEN st.callStack[callKey] ELSE Len(st.heap) IN
  IF callNode > 0
  THEN [ st EXCEPT !.heap[callNode].return_value = event.return_value,
                   !.heap[callNode].end_time = event.end_time,
                   !.heap[callNode].duration = event.duration,
                   !.callStack = DeleteKey(st.callStack, callKey) ]
  ELSE st

\* if (event.event === 'return') { ... return; }
MergeReturn(st, event) ==
  LET callKey == CallKey(event.depth, event.method_name) IN
  IF callKey \in DOMAIN st.callStack
  THEN LET callNode == st.callStack[callKey] IN
       [ st EXCEPT !.heap[callNode].return_value = event.return_value,
                   !.heap[callNode].end_time = event.end_time,
                   !.heap[callNode].duration = event.duration,
                   !.callStack = DeleteKey(st.callStack, callKey) ]
  ELSE st

\* the node with its id taken from the depth instead of the index
NewNode_IdFromDepth(event, i) ==
  [ event         |-> event.event,
    method_name   |-> event.method_name,
    defined_class |-> event.defined_class,
    parameters    |-> event.parameters,
    return_value  |-> event.return_value,
    depth         |-> event.depth,
    start_time    |-> event.start_time,
    end_time      |-> event.end_time,
    duration      |-> event.duration,
    id            |-> NodeId(event.depth),
    children      |-> <<>>,
    isExpanded    |-> TRUE,
    level         |-> event.depth,
    parent        |-> NoRef ]

\* const node = { ...event, id, children: [], isExpanded: true, level }
NewNode(event, i) ==
  [ event         |-> event.event,
    method_name   |-> event.method_name,
    defined_class |-> event.defined_class,
    parameters    |-> event.parameters,
    return_value  |-> event.return_value,
    depth         |-> event.depth,
    start_time    |-> event.start_time,
    end_time      |-> event.end_time,
    duration      |-> event.duration,
    id            |-> NodeId(i),
    children      |-> <<>>,
    isExpanded    |-> TRUE,
    level         |-> event.depth,
    parent        |-> NoRef ]

RECURSIVE PopStack_Strict(_, _)
\* the pop loop with > in place of >=
PopStack_Strict(st, level) ==
  IF Len(st.stack) > 0 /\ st.heap[st.stack[Len(st.stack)]].level > level
  THEN LET popped == st.heap[st.stack[Len(st.stack)]]
           key == CallKey(popped.depth, popped.method_name) IN
       PopStack_Strict([ st EXCEPT !.stack = SubSeq(st.stack, 1, Len(st.stack) - 1),
                                   !.callStack = DeleteKey(st.callStack, key) ],
                       level)
  ELSE st

RECURSIVE PopStack_KeepPending(_, _)
\* the pop loop without `delete callStack[key]`
PopStack_KeepPending(st, level) ==
  IF Len(st.stack) > 0 /\ st.heap[st.stack[Len(st.stack)]].level >= level
  THEN PopStack_KeepPending(
         [ st EXCEPT !.stack = SubSeq(st.stack, 1, Len(st.stack) - 1) ], level)
  ELSE st

RECURSIVE PopStack(_, _)
\* while (stack.length > 0 && stack[top].level >= level) { pop; delete key }
PopStack(st, level) ==
  IF Len(st.stack) > 0 /\ st.heap[st.stack[Len(st.stack)]].level >= level
  THEN LET popped == st.heap[st.stack[Len(st.stack)]]
           key == CallKey(popped.depth, popped.method_name) IN
       PopStack([ st EXCEPT !.stack = SubSeq(st.stack, 1, Len(st.stack) - 1),
                            !.callStack = DeleteKey(st.callStack, key) ],
                level)
  ELSE st

\* the same with unshift in place of push: a new node goes in front of its
\* siblings
AttachNode_Unshift(st, event, i) ==
  LET node == NewNode(event, i)
      p == PopStack(st, node.level)
      ref == Len(p.heap) + 1
      linked ==
        IF Len(p.stack) > 0
        THEN LET parent == p.stack[Len(p.stack)] IN
             [ p EXCEPT !.heap = Append([ p.heap EXCEPT
                                            ![parent].children = << ref >> \o @ ],
                                        [ node EXCEPT !.parent = parent ]) ]
        ELSE [ p EXCEPT !.heap = Append(p.heap, node),
                        !.nodes = << ref >> \o p.nodes ]
      tracked ==
        IF event.event = "call"
        THEN [ linked EXCEPT !.callStack =
                 SetKey(linked.callStack,
                        CallKey(event.depth, event.method_name), ref) ]
        ELSE linked
  IN [ tracked EXCEPT !.stack = Append(tracked.stack, ref) ]

\* the part of the forEach body that runs for call and call_return events
AttachNode(st, event, i) ==
  LET node == NewNode(event, i)
      p == PopStack(st, node.level)
      ref == Len(p.heap) + 1
      linked ==
        IF Len(p.stack) > 0
        THEN LET parent == p.stack[Len(p.stack)] IN
             [ p EXCEPT !.heap = Append([ p.heap EXCEPT
                                            ![parent].children = Append(@, ref) ],
                                        [ node EXCEPT !.parent = parent ]) ]
        ELSE [ p EXCEPT !.heap = Append(p.heap, node),
                        !.nodes = Append(p.nodes, ref) ]
      tracked ==
        IF event.event = "call"
        THEN [ linked EXCEPT !.callStack =
                 SetKey(linked.callStack,
                        CallKey(event.depth, event.method_name), ref) ]
        ELSE linked
  IN [ tracked EXCEPT !.stack = Append(tracked.stack, ref) ]

\* the forEach callback without its early `return;` in the return branch
ForEachBody_FallThrough(st, event, i) ==
  IF event.event = "return" THEN AttachNode(MergeReturn(st, event), event, i)
  ELSE AttachNode(st, event, i)

\* the callback of events.forEach((event, index) => ...)
ForEachBody(st, event, i) ==
  IF event.event = "return" THEN MergeReturn(st, event)
  ELSE AttachNode(st, event, i)

RECURSIVE TransformPrefix(_, _)
\* the local state after the first n events
TransformPrefix(evs, n) ==
  IF n = 0 THEN TStart
  ELSE ForEachBody(TransformPrefix(evs, n - 1), evs[n], n - 1)

Current == TState(heap, nodes, stack, callStack)

Install(st) ==
  /\ heap' = st.heap
  /\ nodes' = st.nodes
  /\ stack' = st.stack
  /\ callStack' = st.callStack

(* ------------------------------ TreeView ------------------------------ *)
\* the forest handed to TreeView as its data prop
Forest(st) == [ null |-> FALSE, heap |-> st.heap, nodes |-> st.nodes ]
NullData == [ null |-> TRUE, heap |-> <<>>, nodes |-> <<>> ]

\* transformTreeData(events)
TransformTreeData(evs) == Forest(TransformPrefix(evs, Len(evs)))

Range(seq) == { seq[i] : i \in 1 .. Len(seq) }

\* useEffect on [data]: the ids of the root nodes
RootNodeIds(data) == { data.heap[r].id : r \in Range(data.nodes) }

\* matchesSearch comparing with searchTerm instead of searchLower
MatchesSearch_RawTerm(node, term) ==
  \/ term = <<>>
  \/ Includes(ToLowerCase(node.method_name), term)
  \/ (node.defined_class # NoClass
        /\ Includes(ToLowerCase(node.defined_class), term))

\* matchesSearch of the visibleNodes traversal
MatchesSearch(node, term) ==
  LET searchLower == ToLowerCase(term) IN
  \/ term = <<>>
  \/ Includes(ToLowerCase(node.method_name), searchLower)
  \/ (node.defined_class # NoClass
        /\ Includes(ToLowerCase(node.defined_class), searchLower))

RECURSIVE Traverse(_, _, _, _, _)
\* function traverse(nodes) of the visibleNodes memo
Traverse(h, refs, expanded, term, filtered) ==
  IF refs = <<>> THEN <<>>
  ELSE LET node == h[Head(refs)] IN
       (IF ~filtered \/ MatchesSearch(node, term) THEN << Head(refs) >> ELSE <<>>)
         \o (IF node.id \in expanded /\ Len(node.children) > 0
             THEN Traverse(h, node.children, expanded, term, filtered) ELSE <<>>)
         \o Traverse(h, Tail(refs), expanded, term, filtered)

\* the visibleNodes memo
VisibleNodes(data, expanded, term, filtered) ==
  Traverse(data.heap, data.nodes, expanded, term, filtered)

\* the updater starting from an empty set instead of a copy of prev
ToggleExpansion_DropsPrev(prev, nodeId) ==
  IF nodeId \in prev THEN {} ELSE {nodeId}

\* the updater of toggleExpansion
ToggleExpansion(prev, nodeId) ==
  IF nodeId \in prev THEN prev \ {nodeId} ELSE prev \cup {nodeId}

RECURSIVE Collect_RootLevelOnly(_, _)
\* collect(nodes) without the recursive call on node.children
Collect_RootLevelOnly(h, refs) ==
  IF refs = <<>> THEN {}
  ELSE LET node == h[Head(refs)] IN
       (IF Len(node.children) > 0 THEN { node.id } ELSE {})
         \cup Collect_RootLevelOnly(h, Tail(refs))

RECURSIVE Collect(_, _)
\* collect(nodes) of the Expand All handler
Collect(h, refs) ==
  IF refs = <<>> THEN {}
  ELSE LET node == h[Head(refs)] IN
       (IF Len(node.children) > 0 THEN { node.id } ELSE {})
         \cup Collect(h, node.children) \cup Collect(h, Tail(refs))

(* ------------------------ PerformanceAnalysis ------------------------- *)
\* collectNodes without the recursive call on node.children
CollectNodes_TopLevel(h, refs) == refs

RECURSIVE CollectNodes(_, _)
\* collectNodes: every node of the forest in pre-order
CollectNodes(h, refs) ==
  IF refs = <<>> THEN <<>>
  ELSE << Head(refs) >> \o CollectNodes(h, h[Head(refs)].children)
         \o CollectNodes(h, Tail(refs))

\* Infinity, the initial min_time of a group (never a duration)
Infinity == -2

\* Math.max / Math.min on a duration and the running value
MathMax(a, b) == IF a > b THEN a ELSE b
MathMin(a, b) == IF a = Infinity THEN b ELSE IF a < b THEN a ELSE b

RECURSIVE GCD(_, _)
GCD(a, b) == IF b = 0 THEN a ELSE GCD(b, a % b)

\* a number that need not be an integer, as an exact fraction in lowest
\* terms (IEEE division of small integers is exact up to rounding that
\* preserves equality and order)
Ratio(n, d) == LET g == GCD(n, d) IN
  IF g = 0 THEN [ num |-> 0, den |-> 1 ] ELSE [ num |-> n \div g, den |-> d \div g ]
Whole(n) == [ num |-> n, den |-> 1 ]
RatioLess(x, y) == x.num * y.den < y.num * x.den

\* !node.duration || node.duration <= 0
NoQualifyingDuration(node) ==
  node.duration = Null \/ node.duration = 0 \/ node.duration <= 0

\* `${node.defined_class || 'Unknown'}#${node.method_name}`
StatsKey(node) ==
  (IF node.defined_class = NoClass
   THEN <<"U", "n", "k", "n", "o", "w", "n">> ELSE node.defined_class)
    \o <<"#">> \o node.method_name

\* methodStats[key] = { ... } for a key seen for the first time
NewStats(key, node) ==
  [ key          |-> key,
    method_name  |-> node.method_name,
    class_name   |-> node.defined_class,
    total_time   |-> 0,
    call_count   |-> 0,
    average_time |-> Whole(0),
    max_time     |-> 0,
    min_time     |-> Infinity,
    node_ids     |-> <<>> ]

\* the callback with total_time assigned instead of added to
AnalyzeNode_AssignsTotal(stats, node) ==
  IF NoQualifyingDuration(node) THEN stats
  ELSE LET key == StatsKey(node)
           created == IF \E i \in 1 .. Len(stats) : stats[i].key = key
                      THEN stats ELSE Append(stats, NewStats(key, node))
           i == CHOOSE k \in 1 .. Len(created) : created[k].key = key
       IN [ created EXCEPT
              ![i].total_time = node.duration,
              ![i].call_count = @ + 1,
              ![i].max_time = MathMax(@, node.duration),
              ![i].min_time = MathMin(@, node.duration),
              ![i].node_ids = Append(@, node.id) ]

\* the callback that skips a node only when its duration is absent
AnalyzeNode_CountsZero(stats, node) ==
  IF node.duration = Null THEN stats
  ELSE LET key == StatsKey(node)
           created == IF \E i \in 1 .. Len(stats) : stats[i].key = key
                      THEN stats ELSE Append(stats, NewStats(key, node))
           i == CHOOSE k \in 1 .. Len(created) : created[k].key = key
       IN [ created EXCEPT
              ![i].total_time = @ + node.duration,
              ![i].call_count = @ + 1,
              ![i].max_time = MathMax(@, node.duration),
              ![i].min_time = MathMin(@, node.duration),
              ![i].node_ids = Append(@, node.id) ]

\* the callback of allNodes.forEach(node => ...); methodStats is kept as
\* the sequence of its values in insertion order (the order Object.values
\* returns for keys that are not integers)
AnalyzeNode(stats, node) ==
  IF NoQualifyingDuration(node) THEN stats
  ELSE LET key == StatsKey(node)
           created == IF \E i \in 1 .. Len(stats) : stats[i].key = key
                      THEN stats ELSE Append(stats, NewStats(key, node))
           i == CHOOSE k \in 1 .. Len(created) : created[k].key = key
       IN [ created EXCEPT
              ![i].total_time = @ + node.duration,
              ![i].call_count = @ + 1,
              ![i].max_time = MathMax(@, node.duration),
              ![i].min_time = MathMin(@, node.duration),
              ![i].node_ids = Append(@, node.id) ]

RECURSIVE AnalyzeNodes(_, _, _)
\* methodStats after the first n nodes of allNodes
AnalyzeNodes(h, allNodes, n) ==
  IF n = 0 THEN <<>>
  ELSE AnalyzeNode(AnalyzeNodes(h, allNodes, n - 1), h[allNodes[n]])

\* the averages taken over one call less than were counted
CalculateAverages_OffByOne(stats) ==
  [ i \in 1 .. Len(stats) |->
      [ stats[i] EXCEPT
          !.average_time = Ratio(stats[i].total_time, stats[i].call_count + 1),
          !.min_time = IF @ = Infinity THEN 0 ELSE @ ] ]

\* Object.values(methodStats).forEach(stats => { average_time; min_time })
CalculateAverages(stats) ==
  [ i \in 1 .. Len(stats) |->
      [ stats[i] EXCEPT
          !.average_time = Ratio(stats[i].total_time, stats[i].call_count),
          !.min_time = IF @ = Infinity THEN 0 ELSE @ ] ]

\* the insertion that also passes elements with an equal key
InsertDescending_PassesEqual(sorted, i, key) ==
  LET after == { k \in 1 .. Len(sorted) : RatioLess(key[i], key[sorted[k]]) }
      n == Cardinality(after) IN
  SubSeq(sorted, 1, n) \o << i >> \o SubSeq(sorted, n + 1, Len(sorted))

\* position i put into a descending order behind every position whose key
\* is not smaller: the comparator (a, b) => key(b) - key(a) of a stable sort
InsertDescending(sorted, i, key) ==
  LET after == { k \in 1 .. Len(sorted) : ~RatioLess(key[sorted[k]], key[i]) }
      n == Cardinality(after) IN
  SubSeq(sorted, 1, n) \o << i >> \o SubSeq(sorted, n + 1, Len(sorted))

RECURSIVE SortedPositions(_, _)
\* Array.prototype.sort (stable) with a descending comparator on key, as
\* the order of the positions 1 .. n
SortedPositions(key, n) ==
  IF n = 0 THEN <<>>
  ELSE InsertDescending(SortedPositions(key, n - 1), n, key)

\* seq.sort((a, b) => key(b) - key(a))
SortDescending(seq, key) ==
  LET order == SortedPositions(key, Len(seq)) IN
  [ i \in 1 .. Len(seq) |-> seq[order[i]] ]

\* seq.slice(0, n)
Slice(seq, n) == SubSeq(seq, 1, IF Len(seq) < n THEN Len(seq) ELSE n)

\* seq.filter(keep), for keep given as the set of the positions to keep
RECURSIVE Filter(_, _)
Filter(seq, keep) ==
  IF seq = <<>> THEN <<>>
  ELSE LET n == Len(seq)
           front == Filter(SubSeq(seq, 1, n - 1), keep) IN
       IF n \in keep THEN Append(front, seq[n]) ELSE front

\* length of the three method rankings and of slowCalls
TopMethods == 10
TopCalls == 15

RECURSIVE SumDurations(_, _, _)
\* allNodes.reduce((sum, n) => sum + (n.duration || 0), 0)
SumDurations(h, allNodes, n) ==
  IF n = 0 THEN 0
  ELSE SumDurations(h, allNodes, n - 1)
         + (IF h[allNodes[n]].duration = Null THEN 0 ELSE h[allNodes[n]].duration)

\* methodStats when the rankings are taken
MethodStats(data) ==
  LET allNodes == CollectNodes(data.heap, data.nodes) IN
  CalculateAverages(AnalyzeNodes(data.heap, allNodes, Len(allNodes)))

\* the analysis memo of PerformanceAnalysis for the data prop
Analysis(data) ==
  LET h == data.heap
      allNodes == CollectNodes(h, data.nodes)
      methodStats == MethodStats(data)
      eligible == Filter(methodStats,
                         { i \in 1 .. Len(methodStats) : methodStats[i].call_count >= 1 })
      positive == Filter(allNodes,
                         { i \in 1 .. Len(allNodes) :
                             /\ h[allNodes[i]].duration # Null
                             /\ h[allNodes[i]].duration # 0
                             /\ h[allNodes[i]].duration > 0 })
  IN [ byTotalTime |->
         Slice(SortDescending(methodStats,
                 [ i \in 1 .. Len(methodStats) |-> Whole(methodStats[i].total_time) ]),
               TopMethods),
       byAverageTime |->
         Slice(SortDescending(eligible,
                 [ i \in 1 .. Len(eligible) |-> eligible[i].average_time ]),
               TopMethods),
       byCallCount |->
         Slice(SortDescending(methodStats,
                 [ i \in 1 .. Len(methodStats) |-> Whole(methodStats[i].call_count) ]),
               TopMethods),
       slowCalls |->
         Slice(SortDescending(positive,
                 [ i \in 1 .. Len(positive) |-> Whole(h[positive[i]].duration) ]),
               TopCalls),
       totalTime |-> SumDurations(h, allNodes, Len(allNodes)),
       totalCalls |-> Len(allNodes) ]

\* null in selectedNode, metadata and error
NoSelection == <<>>
NoMetadata == [ null |-> TRUE, version |-> "", timestamp |-> "" ]
NoError == ""

\* useState initial values of TreeView
ViewStart ==
  /\ expandedNodes = {}
  /\ searchTerm = <<>>
  /\ showOnlyFiltered = FALSE
  /\ selectedNode = NoSelection
  /\ activeTab = "tree"

\* useState initial values of App and FileUpload
AppStart ==
  /\ treeData = NullData
  /\ metadata = NoMetadata
  /\ error = NoError
  /\ reads = 0
  /\ staleReads = 0
  /\ isLoading = FALSE
  /\ ViewStart
  /\ lastOp = "start"

\* JSON.parse(text) of the text at hand, when it parses
Parsed ==
  [ kind      |-> docKind,
    events    |-> events,
    version   |-> IF docKind \in {"envelope", "noEvents"} THEN "1.0" ELSE "undefined",
    timestamp |-> IF docKind \in {"envelope", "noEvents"} THEN "t0" ELSE "undefined" ]

\* Array.isArray(data)
IsArray(data) == data.kind \in {"array", "junkArray"}

\* the events handed to transformTreeData are undefined (data is not an
\* array and has no events property): events.forEach throws a TypeError
EventsUndefined(data) == ~IsArray(data) /\ data.kind # "envelope"

\* meta of handleDataLoad
MetaOf(data) ==
  IF IsArray(data)
  THEN [ null |-> FALSE, version |-> "unknown", timestamp |-> "now" ]
  ELSE [ null |-> FALSE, version |-> data.version, timestamp |-> data.timestamp ]

\* the load with an effect that adds the root ids to the previous set
HandleDataLoad_KeepsExpanded(data) ==
  IF EventsUndefined(data)
  THEN /\ error' = "Failed to process tree data"
       /\ UNCHANGED << treeData, metadata, viewVars >>
  ELSE /\ error' = NoError
       /\ treeData' = TransformTreeData(data.events)
       /\ metadata' = MetaOf(data)
       /\ expandedNodes' = expandedNodes \cup RootNodeIds(treeData')
       /\ IF treeData.null
          THEN /\ searchTerm' = <<>>
               /\ showOnlyFiltered' = FALSE
               /\ selectedNode' = NoSelection
               /\ activeTab' = "tree"
          ELSE UNCHANGED << searchTerm, showOnlyFiltered, selectedNode, activeTab >>

\* App.handleDataLoad on the parsed document, then the render it causes:
\* TreeView is mounted (or keeps its state when it is mounted already) and
\* its effect on [data] replaces expandedNodes.  When transformTreeData
\* throws, the catch block sets error and nothing else.
HandleDataLoad(data) ==
  IF EventsUndefined(data)
  THEN /\ error' = "Failed to process tree data"
       /\ UNCHANGED << treeData, metadata, viewVars >>
  ELSE /\ error' = NoError
       /\ treeData' = TransformTreeData(data.events)
       /\ metadata' = MetaOf(data)
       /\ expandedNodes' = RootNodeIds(treeData')
       /\ IF treeData.null
          THEN /\ searchTerm' = <<>>
               /\ showOnlyFiltered' = FALSE
               /\ selectedNode' = NoSelection
               /\ activeTab' = "tree"
          ELSE UNCHANGED << searchTerm, showOnlyFiltered, selectedNode, activeTab >>

\* this step replaces the mounted FileUpload by a TreeView
UnmountsFileUpload == treeData.null /\ ~treeData'.null

\* FileUpload.handlePasteData with the document as the pasted text
HandlePasteData ==
  /\ treeData.null /\ ~isLoading
  /\ IF docKind = "notJson"
     THEN /\ lastOp' = "pasteAlert"
          /\ UNCHANGED << appVars, viewVars >>
     ELSE /\ HandleDataLoad(Parsed)
          /\ IF UnmountsFileUpload
             THEN staleReads' = staleReads + reads /\ reads' = 0
             ELSE UNCHANGED << reads, staleReads >>
          /\ isLoading' = FALSE
          /\ lastOp' = "paste"
  /\ UNCHANGED << inputVars, transformVars >>

\* FileUpload.handleDrop / handleFileSelect: handleFile up to its await
HandleFile ==
  /\ treeData.null
  /\ reads + staleReads < MaxReads
  /\ reads' = reads + 1
  /\ isLoading' = TRUE
  /\ lastOp' = "file"
  /\ UNCHANGED << inputVars, transformVars, treeData, metadata, error,
                  staleReads, viewVars >>

\* handleFile after its await, for a read the mounted FileUpload started
FileRead ==
  /\ reads > 0
  /\ IF docKind = "notJson"
     THEN /\ lastOp' = "readAlert"
          /\ reads' = reads - 1
          /\ UNCHANGED << treeData, metadata, error, staleReads, viewVars >>
     ELSE /\ HandleDataLoad(Parsed)
          /\ IF UnmountsFileUpload
             THEN staleReads' = staleReads + (reads - 1) /\ reads' = 0
             ELSE reads' = reads - 1 /\ UNCHANGED staleReads
          /\ lastOp' = "read"
  /\ isLoading' = FALSE
  /\ UNCHANGED << inputVars, transformVars >>

\* handleFile after its await, for a read whose FileUpload is gone (its
\* setIsLoading has no effect any more)
StaleFileRead ==
  /\ staleReads > 0
  /\ IF docKind = "notJson"
     THEN /\ lastOp' = "staleReadAlert"
          /\ staleReads' = staleReads - 1
          /\ UNCHANGED << treeData, metadata, error, reads, isLoading, viewVars >>
     ELSE /\ HandleDataLoad(Parsed)
          /\ IF UnmountsFileUpload
             THEN /\ staleReads' = (staleReads - 1) + reads
                  /\ reads' = 0
                  /\ isLoading' = FALSE
             ELSE /\ staleReads' = staleReads - 1
                  /\ UNCHANGED << reads, isLoading >>
          /\ lastOp' = "staleRead"
  /\ UNCHANGED << inputVars, transformVars >>

\* App.handleReset: TreeView is unmounted, FileUpload is mounted afresh
HandleReset ==
  /\ ~treeData.null
  /\ treeData' = NullData
  /\ metadata' = NoMetadata
  /\ error' = NoError
  /\ expandedNodes' = {}
  /\ searchTerm' = <<>>
  /\ showOnlyFiltered' = FALSE
  /\ selectedNode' = NoSelection
  /\ activeTab' = "tree"
  /\ isLoading' = FALSE
  /\ lastOp' = "reset"
  /\ UNCHANGED << inputVars, transformVars, reads, staleReads >>

\* the expansion button of a row: toggleExpansion(node.id)
Toggle ==
  /\ ~treeData.null /\ activeTab = "tree"
  /\ \E r \in Range(VisibleNodes(treeData, expandedNodes, searchTerm, showOnlyFiltered)) :
       /\ Len(treeData.heap[r].children) > 0
       /\ expandedNodes' = ToggleExpansion(expandedNodes, treeData.heap[r].id)
       /\ lastOp' = "toggle"
  /\ UNCHANGED << inputVars, transformVars, appVars, searchTerm,
                  showOnlyFiltered, selectedNode, activeTab >>

\* onChange of the search box
SetSearchTerm ==
  /\ ~treeData.null /\ activeTab = "tree"
  /\ \E term \in SearchTerms : term # searchTerm /\ searchTerm' = term
  /\ lastOp' = "search"
  /\ UNCHANGED << inputVars, transformVars, appVars, expandedNodes,
                  showOnlyFiltered, selectedNode, activeTab >>

\* onChange of the "Filter only" checkbox
SetShowOnlyFiltered ==
  /\ ~treeData.null /\ activeTab = "tree"
  /\ showOnlyFiltered' = ~showOnlyFiltered
  /\ lastOp' = "filter"
  /\ UNCHANGED << inputVars, transformVars, appVars, expandedNodes,
                  searchTerm, selectedNode, activeTab >>

\* onClick of "Expand All"
ExpandAll ==
  /\ ~treeData.null /\ activeTab = "tree"
  /\ expandedNodes' = Collect(treeData.heap, treeData.nodes)
  /\ lastOp' = "expandAll"
  /\ UNCHANGED << inputVars, transformVars, appVars, searchTerm,
                  showOnlyFiltered, selectedNode, activeTab >>

\* onClick of "Collapse All"
CollapseAll ==
  /\ ~treeData.null /\ activeTab = "tree"
  /\ expandedNodes' = {}
  /\ lastOp' = "collapseAll"
  /\ UNCHANGED << inputVars, transformVars, appVars, searchTerm,
                  showOnlyFiltered, selectedNode, activeTab >>

\* onClick of the "Tree View" / "Performance Analysis" tab buttons
SetActiveTab ==
  /\ ~treeData.null
  /\ \E tab \in {"tree", "performance"} : tab # activeTab /\ activeTab' = tab
  /\ lastOp' = "tab"
  /\ UNCHANGED << inputVars, transformVars, appVars, expandedNodes,
                  searchTerm, showOnlyFiltered, selectedNode >>

\* handleNodeSelect
HandleNodeSelect(nodeId) == selectedNode' = nodeId

\* onClick of a row of the tree: onSelect(node.id)
SelectRow ==
  /\ ~treeData.null /\ activeTab = "tree"
  /\ \E r \in Range(VisibleNodes(treeData, expandedNodes, searchTerm, showOnlyFiltered)) :
       HandleNodeSelect(treeData.heap[r].id)
  /\ lastOp' = "row"
  /\ UNCHANGED << inputVars, transformVars, appVars, expandedNodes,
                  searchTerm, showOnlyFiltered, activeTab >>

\* the method cards on display: the three rankings
MethodCards(data) ==
  LET analysis == Analysis(data) IN
  Range(analysis.byTotalTime) \cup Range(analysis.byAverageTime)
    \cup Range(analysis.byCallCount)

\* onClick of a MethodCard: stats.node_ids[0] && onNodeSelect(stats.node_ids[0])
ClickMethodCard ==
  /\ ~treeData.null /\ activeTab = "performance"
  /\ \E stats \in MethodCards(treeData) :
       IF stats.node_ids # <<>> /\ stats.node_ids[1] # NoSelection
       THEN HandleNodeSelect(stats.node_ids[1])
       ELSE UNCHANGED selectedNode
  /\ lastOp' = "methodCard"
  /\ UNCHANGED << inputVars, transformVars, appVars, expandedNodes,
                  searchTerm, showOnlyFiltered, activeTab >>

\* onClick of a CallCard: onNodeSelect(node.id)
ClickCallCard ==
  /\ ~treeData.null /\ activeTab = "performance"
  /\ \E r \in Range(Analysis(treeData).slowCalls) :
       HandleNodeSelect(treeData.heap[r].id)
  /\ lastOp' = "callCard"
  /\ UNCHANGED << inputVars, transformVars, appVars, expandedNodes,
                  searchTerm, showOnlyFiltered, activeTab >>

\* the message in place of the rows of the tree tab ("" when rows are shown)
EmptyMessage(visibleNodes, term, filtered) ==
  IF visibleNodes # <<>> THEN ""
  ELSE IF term # <<>> \/ filtered
       THEN "No matching events found" ELSE "No events to display"

\* selectedNodeData looked up among all nodes of the forest
SelectedNodeData_AnyNode(data, visibleNodes, selected) ==
  LET allNodes == CollectNodes(data.heap, data.nodes)
      found == { k \in 1 .. Len(allNodes) : data.heap[allNodes[k]].id = selected } IN
  IF selected = NoSelection \/ found = {} THEN NoRef
  ELSE allNodes[CHOOSE k \in found : \A j \in found : k <= j]

\* selectedNodeData: the node whose details are on display (NoRef: none)
SelectedNodeData(data, visibleNodes, selected) ==
  LET found == { k \in 1 .. Len(visibleNodes) :
                   data.heap[visibleNodes[k]].id = selected } IN
  IF selected = NoSelection \/ found = {} THEN NoRef
  ELSE visibleNodes[CHOOSE k \in found : \A j \in found : k <= j]

(* ------------------------------ actions ------------------------------- *)
Init ==
  /\ \E n \in 0 .. MaxEvents : \E s \in [ 1 .. n -> Shapes ] :
       events = EventList(s)
  /\ docKind = "array"
  /\ index = 0
  /\ heap = <<>>
  /\ nodes = <<>>
  /\ stack = <<>>
  /\ callStack = <<>>
  /\ AppStart

\* one iteration of forEach on a return event
ProcessReturn ==
  /\ index < Len(events)
  /\ events[index + 1].event = "return"
  /\ Install(ForEachBody(Current, events[index + 1], index))
  /\ index' = index + 1
  /\ UNCHANGED << inputVars, appVars, viewVars, lastOp >>

\* one iteration of forEach on a call or call_return event
ProcessCall ==
  /\ index < Len(events)
  /\ events[index + 1].event # "return"
  /\ Install(ForEachBody(Current, events[index + 1], index))
  /\ index' = index + 1
  /\ UNCHANGED << inputVars, appVars, viewVars, lastOp >>

Next == ProcessReturn \/ ProcessCall

Spec == Init /\ [][Next]_vars

\* the method called at position i of a flat trace: as many different
\* methods as make one group more than a ranking shows
FlatMethod(i) == <<"m">> \o DecimalString(i % (TopMethods + 1))

\* a flat trace of n calls of duration 1, except for the call at position
\* slow (if any), which has duration 2
FlatTrace(n, slow) ==
  [ i \in 1 .. n |->
      [ TimedEvent(i - 1, FlatMethod(i - 1), 0, IF i = slow THEN 2 ELSE 1)
          EXCEPT !.defined_class = NoClass ] ]

\* the application with one timed trace at hand: a short trace of any
\* shape, or a flat trace longer than the rankings
InitPerf ==
  /\ \/ \E n \in 0 .. MaxEvents :
          \E s \in [ 1 .. n -> MethodNames \X PerfDepths \X DurationValues ] :
            events = TimedEventList(s)
     \/ \E n \in (MaxEvents + 1) .. MaxCalls : \E slow \in 0 .. n :
          events = FlatTrace(n, slow)
  /\ docKind = "array"
  /\ index = 0
  /\ heap = <<>>
  /\ nodes = <<>>
  /\ stack = <<>>
  /\ callStack = <<>>
  /\ AppStart

\* the performance tab over a pasted document
NextPerf ==
  \/ HandlePasteData
  \/ SetActiveTab

SpecPerf == InitPerf /\ [][NextPerf]_vars

\* the application with one short timed trace at hand, whose calls have no
\* duration, a zero duration or a positive one
InitTotals ==
  /\ \E n \in 0 .. MaxEvents :
       \E s \in [ 1 .. n -> MethodNames \X PerfDepths \X TotalsDurations ] :
         events = TimedEventList(s)
  /\ docKind = "array"
  /\ index = 0
  /\ heap = <<>>
  /\ nodes = <<>>
  /\ stack = <<>>
  /\ callStack = <<>>
  /\ AppStart

\* the performance tab, and what the user can do to the projection of the
\* tree tab before looking at it
NextTotals ==
  \/ HandlePasteData
  \/ SetActiveTab
  \/ SetSearchTerm
  \/ SetShowOnlyFiltered
  \/ CollapseAll

SpecTotals == InitTotals /\ [][NextTotals]_vars

\* kinds of the events of the documents that are put on display: traces
\* captured before any call returned (the tree view never reads the kind,
\* and without return events both kinds build the same forest)
ViewKinds == {"call"}

\* the application with one trace document at hand
InitView ==
  /\ \E n \in 0 .. MaxEvents :
       \E s \in [ 1 .. n -> ViewKinds \X MethodNames \X (0 .. MaxDepth) ] :
         events = EventList(s)
  /\ docKind = "array"
  /\ index = 0
  /\ heap = <<>>
  /\ nodes = <<>>
  /\ stack = <<>>
  /\ callStack = <<>>
  /\ AppStart

\* the tree view over a pasted document: what the user can do to the
\* projection
NextView ==
  \/ HandlePasteData
  \/ HandleReset
  \/ Toggle
  \/ SetSearchTerm
  \/ SetShowOnlyFiltered
  \/ ExpandAll
  \/ CollapseAll

SpecView == InitView /\ [][NextView]_vars

\* the life of the document: pastes, file reads that complete in any
\* order, resets, and the actions that change the expanded set
NextApp ==
  \/ HandlePasteData
  \/ HandleFile
  \/ FileRead
  \/ StaleFileRead
  \/ HandleReset
  \/ Toggle
  \/ ExpandAll
  \/ CollapseAll

\* the application with one trace at hand in which every call has returned
\* (so that every node has a duration and a card in the performance tab)
InitSelect ==
  /\ \E n \in 0 .. MaxEvents :
       \E s \in [ 1 .. n -> {"call_return"} \X MethodNames \X PerfDepths ] :
         events = EventList(s)
  /\ docKind = "array"
  /\ index = 0
  /\ heap = <<>>
  /\ nodes = <<>>
  /\ stack = <<>>
  /\ callStack = <<>>
  /\ AppStart

\* selecting a node from the rows of the tree and from the cards of the
\* performance tab, and what the user can do to the projection
NextSelect ==
  \/ HandlePasteData
  \/ SetActiveTab
  \/ SelectRow
  \/ ClickMethodCard
  \/ ClickCallCard
  \/ Toggle
  \/ SetSearchTerm
  \/ SetShowOnlyFiltered
  \/ ExpandAll
  \/ CollapseAll

SpecSelect == InitSelect /\ [][NextSelect]_vars

\* the application with one text at hand, well-formed or not
InitApp ==
  /\ \E kind \in DocKinds :
       /\ docKind = kind
       /\ IF kind \in {"array", "envelope"}
          THEN \E n \in 0 .. MaxEvents :
                 \E s \in [ 1 .. n -> ViewKinds \X MethodNames \X (0 .. MaxDepth) ] :
                   events = EventList(s)
          ELSE events = IF kind = "junkArray" THEN << JunkElement >> ELSE <<>>
  /\ index = 0
  /\ heap = <<>>
  /\ nodes = <<>>
  /\ stack = <<>>
  /\ callStack = <<>>
  /\ AppStart

SpecApp == InitApp /\ [][NextApp]_vars

(* ------------------------- reading the forest ------------------------- *)
RECURSIVE FlattenTree(_, _)
\* flattenTree: node, then its children when isExpanded, recursively
FlattenTree(h, refs) ==
  IF refs = <<>> THEN <<>>
  ELSE LET node == h[Head(refs)] IN
       << Head(refs) >>
         \o (IF node.isExpanded /\ Len(node.children) > 0
             THEN FlattenTree(h, node.children) ELSE <<>>)
         \o FlattenTree(h, Tail(refs))

IsNodeEvent(e) == e.event # "return"

\* positions (1-based) of the call and call_return events among the first n
NodePositions(evs, n) == { i \in 1 .. n : IsNodeEvent(evs[i]) }

\* position of the event from which the r-th node was created
EventPos(evs, r) ==
  CHOOSE i \in 1 .. Len(evs) :
    IsNodeEvent(evs[i]) /\ Cardinality(NodePositions(evs, i)) = r

RECURSIVE WellNestedFrom(_, _, _, _)
\* the events from position i on are perfectly nested and matched, given the
\* list open of the (method, depth) pairs of the calls that are still open
WellNestedFrom(evs, i, open, base) ==
  IF i > Len(evs) THEN open = <<>>
  ELSE LET e == evs[i] IN
       CASE e.event = "call" ->
              /\ e.depth = base + Len(open)
              /\ WellNestedFrom(evs, i + 1,
                                Append(open, << e.method_name, e.depth >>), base)
         [] e.event = "call_return" ->
              /\ e.depth = base + Len(open)
              /\ WellNestedFrom(evs, i + 1, open, base)
         [] OTHER ->
              /\ Len(open) > 0
              /\ open[Len(open)] = << e.method_name, e.depth >>
              /\ WellNestedFrom(evs, i + 1, SubSeq(open, 1, Len(open) - 1), base)

\* every call has its return, calls nest properly, depth = nesting level
\* counted from the depth of the first event
WellNested(evs) ==
  evs # <<>> => WellNestedFrom(evs, 1, <<>>, evs[1].depth)

Done == index = Len(events)

(* ------------------------------- claims ------------------------------- *)
\* C1: for a perfectly nested, matched event list the pre-order flattening
\* of the returned forest lists the (method_name, depth) pairs of the call
\* and call_return events in input order.
C1_PreOrderIsCallOrder ==
  (Done /\ WellNested(events)) =>
    LET flat == FlattenTree(heap, nodes)
        calls == SelectSeq(events, IsNodeEvent)
    IN  [ k \in 1 .. Len(flat) |-> << heap[flat[k]].method_name, heap[flat[k]].depth >> ]
          = [ k \in 1 .. Len(calls) |-> << calls[k].method_name, calls[k].depth >> ]

C1_Witness ==
  /\ Done /\ WellNested(events) /\ Len(events) >= 3
  /\ \E i \in 1 .. Len(events) : events[i].event = "return"
  /\ \E r \in 1 .. Len(heap) : heap[r].parent # NoRef

\* the next event is a return event and this is its call key
NextIsReturn == index < Len(events) /\ events[index + 1].event = "return"
NextKey == CallKey(events[index + 1].depth, events[index + 1].method_name)

\* C2: a return event whose key has a pending call is merged into that
\* call's own node: the node's return_value, end_time and duration become
\* the event's, no node is created, no link and no other node changes; a
\* call directly followed by its matching return gives exactly one node with
\* the call's parameters and the return's return_value.
C2_ReturnMergesInPlace ==
  [][ (NextIsReturn /\ NextKey \in DOMAIN callStack /\ index' = index + 1) =>
        LET ev == events[index + 1]
            r == callStack[NextKey]
        IN  /\ heap[r].event = "call"
            /\ heap[r].depth = ev.depth
            /\ heap[r].method_name = ev.method_name
            /\ heap' = [ heap EXCEPT ![r].return_value = ev.return_value,
                                     ![r].end_time = ev.end_time,
                                     ![r].duration = ev.duration ]
            /\ nodes' = nodes
            /\ (index >= 1 /\ events[index].event = "call"
                  /\ CallKey(events[index].depth, events[index].method_name) = NextKey)
               => /\ r = Len(heap)
                  /\ Len(heap') = Len(TransformPrefix(events, index - 1).heap) + 1
                  /\ heap'[r].parameters = events[index].parameters
                  /\ heap'[r].return_value = ev.return_value
    ]_vars

C2_Witness ==
  /\ index >= 2
  /\ events[index].event = "return" /\ events[index - 1].event = "call"
  /\ events[index].depth = events[index - 1].depth
  /\ events[index].method_name = events[index - 1].method_name
  /\ heap[Len(heap)].return_value = events[index].return_value
  /\ heap[Len(heap)].parameters = events[index - 1].parameters

\* the first call or call_return event after position i among the first n
\* events (0 when there is none)
NextNodeEvent(evs, i, n) ==
  IF \E j \in (i + 1) .. n : IsNodeEvent(evs[j])
  THEN CHOOSE j \in (i + 1) .. n :
         IsNodeEvent(evs[j]) /\ \A k \in (i + 1) .. (j - 1) : ~IsNodeEvent(evs[k])
  ELSE 0

\* the nodes created from the event at position i
NodesOf(i) == { r \in 1 .. Len(heap) : heap[r].id = NodeId(i - 1) }

\* C3 as stated: every call_return event gives exactly one node, and that
\* node has no children, whatever the depths around it.
C3_CallReturnChildless ==
  \A i \in 1 .. index : events[i].event = "call_return" =>
    /\ Cardinality(NodesOf(i)) = 1
    /\ \A r \in NodesOf(i) : heap[r].children = <<>>

\* C3 amended: every call_return event gives exactly one node; the node has
\* no children exactly when the next call or call_return event, if any, is
\* not deeper than it.  A directly following deeper event becomes its child.
C3_CallReturnChildlessUnlessDeeperFollows ==
  \A i \in 1 .. index : events[i].event = "call_return" =>
    /\ Cardinality(NodesOf(i)) = 1
    /\ \A r \in NodesOf(i) :
         LET j == NextNodeEvent(events, i, index) IN
         /\ heap[r].event = "call_return"
         /\ (heap[r].children = <<>>) <=> (j = 0 \/ events[j].depth <= events[i].depth)

C3_Witness ==
  /\ Done
  /\ \E i \in 1 .. (index - 1) :
       /\ events[i].event = "call_return" /\ events[i].depth > 0
       /\ NextNodeEvent(events, i, index) # 0
       /\ \A r \in NodesOf(i) : heap[r].children = <<>> /\ heap[r].parent # NoRef

\* C4: a return event with no entry at its key is dropped: the step is taken
\* and leaves the forest, the open stack and the pending index as they were.
C4_UnmatchedReturnDropped ==
  [][ (NextIsReturn /\ NextKey \notin DOMAIN callStack) =>
        /\ index' = index + 1
        /\ UNCHANGED << heap, nodes, stack, callStack >>
    ]_vars

C4_Witness ==
  /\ index >= 2
  /\ events[index].event = "return"
  /\ heap # <<>> /\ callStack # <<>>
  /\ LET before == TransformPrefix(events, index - 1) IN
       /\ CallKey(events[index].depth, events[index].method_name)
            \notin DOMAIN before.callStack
       /\ before = Current

\* C5: a node with a parent is strictly deeper than the parent, and the
\* parent is the most recently created node of smaller depth that was on the
\* open stack when the child's event was processed.
C5_ParentIsNearestShallowerOpen ==
  \A r \in 1 .. Len(heap) : heap[r].parent # NoRef =>
    LET before == TransformPrefix(events, EventPos(events, r) - 1)
        shallower == { q \in Range(before.stack) :
                         before.heap[q].depth < heap[r].depth }
    IN  /\ heap[heap[r].parent].depth < heap[r].depth
        /\ heap[r].parent \in shallower
        /\ \A q \in shallower : q <= heap[r].parent

C5_Witness ==
  \E r \in 1 .. Len(heap) :
    /\ heap[r].parent # NoRef
    /\ heap[r].depth > heap[heap[r].parent].depth + 1
    /\ Len(TransformPrefix(events, EventPos(events, r) - 1).stack) >= 2

\* the reference of the node created from the event at position i
RefOf(evs, i) == Cardinality(NodePositions(evs, i))

ReturnFields(node) == << node.return_value, node.end_time, node.duration >>

\* C6: after a call or call_return event at depth <= d, an earlier call node
\* at depth d still waiting for its return is out of reach: a later return
\* event with its key (no new call at that key in between) leaves its
\* return_value, end_time and duration as they were.
C6_EvictedCallNeverMatched ==
  \A i \in 1 .. index : \A j \in (i + 1) .. index : \A k \in (j + 1) .. index :
    ( /\ events[i].event = "call"
      /\ IsNodeEvent(events[j]) /\ events[j].depth <= events[i].depth
      /\ ReturnFields(TransformPrefix(events, j - 1).heap[RefOf(events, i)])
           = ReturnFields(events[i])
      /\ events[k].event = "return"
      /\ events[k].depth = events[i].depth
      /\ events[k].method_name = events[i].method_name
      /\ \A m \in j .. (k - 1) :
           ~ ( events[m].event = "call" /\ events[m].depth = events[i].depth
               /\ events[m].method_name = events[i].method_name ) )
    => ReturnFields(TransformPrefix(events, k).heap[RefOf(events, i)])
         = ReturnFields(events[i])

C6_Witness ==
  /\ index >= 3
  /\ events[index].event = "return"
  /\ \E i \in 1 .. (index - 2) : \E j \in (i + 1) .. (index - 1) :
       /\ events[i].event = "call"
       /\ IsNodeEvent(events[j]) /\ events[j].depth <= events[i].depth
       /\ events[index].depth = events[i].depth
       /\ events[index].method_name = events[i].method_name
       /\ \A m \in (i + 1) .. (index - 1) : events[m].event # "return"
       /\ \A m \in j .. (index - 1) :
            ~ ( events[m].event = "call" /\ events[m].depth = events[i].depth
                /\ events[m].method_name = events[i].method_name )
       /\ heap[RefOf(events, i)].return_value = Null

\* C7: no two nodes of the forest have the same id.
C7_IdsUnique ==
  \A r1, r2 \in 1 .. Len(heap) : heap[r1].id = heap[r2].id => r1 = r2

C7_Witness ==
  /\ Done /\ Len(heap) >= 2
  /\ \E i \in 1 .. Len(events) : events[i].event = "return"
  /\ \E r1, r2 \in 1 .. Len(heap) :
       r1 # r2 /\ heap[r1].depth = heap[r2].depth
         /\ heap[r1].method_name = heap[r2].method_name

(* ------------------------- the visible projection --------------------- *)
RECURSIVE AncestorsExpanded(_, _, _)
\* the id of every proper ancestor of node r is in the set expanded
AncestorsExpanded(h, r, expanded) ==
  \/ h[r].parent = NoRef
  \/ /\ h[h[r].parent].id \in expanded
     /\ AncestorsExpanded(h, h[r].parent, expanded)

\* the two characters are the same letter in either case
SameLetter(c1, c2) ==
  \/ c1 = c2
  \/ \E k \in 1 .. Len(UpperCase) : {c1, c2} = {UpperCase[k], LowerCase[k]}

\* str contains term, letter case ignored
ContainsIgnoringCase(str, term) ==
  \E i \in 0 .. (Len(str) - Len(term)) :
    \A k \in 1 .. Len(term) : SameLetter(str[i + k], term[k])

\* the node matches the search string by method name or by class
MatchesByName(node, term) ==
  \/ ContainsIgnoringCase(node.method_name, term)
  \/ ContainsIgnoringCase(node.defined_class, term)

Visible == VisibleNodes(treeData, expandedNodes, searchTerm, showOnlyFiltered)

\* a is b with some entries left out (the entries of b are distinct)
IsSubSeq(a, b) ==
  LET Kept(x) == x \in Range(a) IN a = SelectSeq(b, Kept)

\* C8: the projection holds a node exactly when every proper ancestor's id
\* is in expanded and (filteredOnly is off or the node matches the search by
\* method name or class, case ignored, an empty search matching all); the
\* nodes are in pre-order of the forest.
C8_ProjectionCharacterised ==
  ~treeData.null =>
    LET h == treeData.heap
        Shown(r) ==
          /\ AncestorsExpanded(h, r, expandedNodes)
          /\ (~showOnlyFiltered \/ MatchesByName(h[r], searchTerm))
    IN  Visible = SelectSeq(CollectNodes(h, treeData.nodes), Shown)

\* a non-matching expanded root, its matching child emitted, and the
\* matching grandchild under the collapsed child not emitted
C8_Witness ==
  /\ ~treeData.null /\ showOnlyFiltered /\ searchTerm # <<>>
  /\ \E r1, r2, r3 \in 1 .. Len(treeData.heap) :
       LET h == treeData.heap IN
       /\ h[r2].parent = r1 /\ h[r3].parent = r2 /\ h[r1].parent = NoRef
       /\ ~MatchesByName(h[r1], searchTerm)
       /\ MatchesByName(h[r2], searchTerm) /\ MatchesByName(h[r3], searchTerm)
       /\ h[r1].id \in expandedNodes /\ h[r2].id \notin expandedNodes
       /\ Visible = << r2 >>

\* C9: with forest, search and filter fixed, toggling a collapsed node to
\* expanded keeps every entry of the projection in the same relative order,
\* and toggling it back gives exactly the projection from before.
C9_ToggleMonotone ==
  [][ \A r \in 1 .. Len(treeData.heap) :
        LET id == treeData.heap[r].id IN
        (lastOp' = "toggle" /\ id \notin expandedNodes /\ id \in expandedNodes') =>
          LET back == ToggleExpansion(expandedNodes', id) IN
          /\ IsSubSeq(Visible, Visible')
          /\ VisibleNodes(treeData', back, searchTerm', showOnlyFiltered') = Visible
    ]_vars

\* a chain of three nodes all on display after a toggle: the toggle
\* expanded a node and added the deepest entry
C9_Witness ==
  /\ lastOp = "toggle" /\ ~treeData.null
  /\ Len(treeData.nodes) = 1
  /\ Len(Visible) = 3

\* root, then its children in order, for every root
RECURSIVE RootsWithChildren(_, _)
RootsWithChildren(h, refs) ==
  IF refs = <<>> THEN <<>>
  ELSE << Head(refs) >> \o h[Head(refs)].children \o RootsWithChildren(h, Tail(refs))

\* C10: after a load (one that did not fail) the expanded set is exactly
\* the ids of the roots of the new forest (no descendant id, nothing left
\* from before), so with filteredOnly off the projection is each root
\* followed by its children.
C10_LoadExpandsRootsOnly ==
  [][ (lastOp' \in {"paste", "read", "staleRead"} /\ error' = NoError) =>
        LET h == treeData'.heap IN
        /\ ~treeData'.null
        /\ \A r \in 1 .. Len(h) :
             (h[r].id \in expandedNodes') <=> (h[r].parent = NoRef)
        /\ \A id \in expandedNodes' : \E r \in 1 .. Len(h) : h[r].id = id
        /\ VisibleNodes(treeData', expandedNodes', searchTerm', FALSE)
             = RootsWithChildren(h, treeData'.nodes)
    ]_vars

\* a late file read replaced the forest of a tree view the user had already
\* worked with; the forest has nodes below the children of its roots
C10_Witness ==
  /\ lastOp = "staleRead"
  /\ \E r \in 1 .. Len(treeData.heap) :
       /\ treeData.heap[r].parent # NoRef
       /\ treeData.heap[treeData.heap[r].parent].parent # NoRef
  /\ expandedNodes = RootNodeIds(treeData)


(* ---------------------- Expand All / Collapse All --------------------- *)
\* ids of the nodes of the forest that have at least one child
IdsWithChildren(data) ==
  { data.heap[r].id : r \in { q \in 1 .. Len(data.heap) :
                                Len(data.heap[q].children) > 0 } }

\* C11: whatever the expanded set was, "Expand All" leaves exactly the ids
\* of the nodes that have at least one child, and the projection with the
\* filter off is then every node of the forest in pre-order; "Collapse
\* All" leaves the empty set, and the projection then holds root nodes
\* only (all of them when the filter is off).
C11_BulkExpansion ==
  [][ /\ lastOp' = "expandAll" =>
           /\ expandedNodes' = IdsWithChildren(treeData')
           /\ VisibleNodes(treeData', expandedNodes', searchTerm', FALSE)
                = CollectNodes(treeData'.heap, treeData'.nodes)
      /\ lastOp' = "collapseAll" =>
           /\ expandedNodes' = {}
           /\ VisibleNodes(treeData', expandedNodes', searchTerm', FALSE)
                = treeData'.nodes
           /\ Range(VisibleNodes(treeData', expandedNodes', searchTerm',
                                 showOnlyFiltered'))
                \subseteq Range(treeData'.nodes) ]_vars

\* "Expand All" has run on a chain of three nodes while a search term and
\* the filter were set
C11_Witness ==
  /\ lastOp = "expandAll"
  /\ Len(treeData.heap) = 3
  /\ Len(treeData.nodes) = 1
  /\ Cardinality(expandedNodes) = 2
  /\ showOnlyFiltered
  /\ searchTerm # <<>>


(* ------------------------ performance analysis ------------------------ *)
RECURSIVE HeapDuration(_, _)
\* sum of the durations of the first n objects of the heap, an absent
\* duration counting as 0
HeapDuration(h, n) ==
  IF n = 0 THEN 0
  ELSE HeapDuration(h, n - 1) + (IF h[n].duration = Null THEN 0 ELSE h[n].duration)

\* the performance tab is on display
AnalysisShown == ~treeData.null /\ activeTab = "performance"

\* C12: totalCalls is the number of nodes of the forest and totalTime the
\* sum of their durations with an absent duration counted as 0, nodes left
\* out of the grouping included, whatever the expanded set, the search
\* string and the filter flag are.
C12_TotalsCoverAllNodes ==
  AnalysisShown =>
    LET analysis == Analysis(treeData) IN
    /\ analysis.totalCalls = Len(treeData.heap)
    /\ analysis.totalTime = HeapDuration(treeData.heap, Len(treeData.heap))

\* the analysis of a forest with a nested node, a node without duration
\* and a node with one, shown with every node collapsed, a search string
\* that matches no node and the filter on
C12_Witness ==
  /\ AnalysisShown
  /\ expandedNodes = {}
  /\ showOnlyFiltered
  /\ searchTerm = <<"B">>
  /\ VisibleNodes(treeData, expandedNodes, searchTerm, showOnlyFiltered) = <<>>
  /\ Len(treeData.heap) = 3
  /\ Len(treeData.nodes) < 3
  /\ \E r \in 1 .. 3 : treeData.heap[r].duration = Null
  /\ \E r \in 1 .. 3 : treeData.heap[r].duration = 0
  /\ Analysis(treeData).totalTime = 2


\* the nodes with a present, positive duration
Qualifying(h) ==
  { r \in 1 .. Len(h) : h[r].duration # Null /\ h[r].duration > 0 }

RECURSIVE TotalDuration(_, _)
\* sum of the durations of the nodes in the set refs
TotalDuration(h, refs) ==
  IF refs = {} THEN 0
  ELSE LET r == CHOOSE x \in refs : TRUE IN
       h[r].duration + TotalDuration(h, refs \ {r})

RECURSIVE Ascending(_)
\* the elements of a set of references, smallest first (creation order,
\* which is pre-order)
Ascending(refs) ==
  IF refs = {} THEN <<>>
  ELSE LET r == CHOOSE x \in refs : \A y \in refs : x <= y IN
       << r >> \o Ascending(refs \ {r})

\* the group is the summary of exactly the nodes in members
Summarises(h, group, members) ==
  /\ members # {}
  /\ group.call_count = Cardinality(members)
  /\ group.call_count >= 1
  /\ group.total_time = TotalDuration(h, members)
  /\ group.average_time.den > 0
  /\ group.average_time.num * group.call_count
       = group.total_time * group.average_time.den
  /\ \E r \in members : group.max_time = h[r].duration
  /\ \A r \in members : h[r].duration <= group.max_time
  /\ \E r \in members : group.min_time = h[r].duration
  /\ \A r \in members : group.min_time <= h[r].duration
  /\ 0 < group.min_time
  /\ group.min_time * group.average_time.den <= group.average_time.num
  /\ group.average_time.num <= group.max_time * group.average_time.den
  /\ Len(group.node_ids) = group.call_count
  /\ group.node_ids = [ k \in 1 .. Cardinality(members) |->
                          h[Ascending(members)[k]].id ]

RatioEqual(x, y) == ~RatioLess(x, y) /\ ~RatioLess(y, x)

\* position a of the candidates is ranked before position b: its key is
\* greater, or equal with a coming first
RankedBefore(key, a, b) ==
  \/ RatioLess(key[b], key[a])
  \/ RatioEqual(key[a], key[b]) /\ a < b

\* ranking is the first min(limit, number of candidates) candidates of the
\* stable descending order by key (candidates are pairwise different)
IsTopRanking(ranking, candidates, key, limit) ==
  LET n == Len(candidates)
      pos(x) == CHOOSE k \in 1 .. n : candidates[k] = x
      ranked == { pos(ranking[i]) : i \in 1 .. Len(ranking) } IN
  /\ Len(ranking) = IF n < limit THEN n ELSE limit
  /\ \A i \in 1 .. Len(ranking) : \E k \in 1 .. n : candidates[k] = ranking[i]
  /\ \A i, j \in 1 .. Len(ranking) :
       i < j => RankedBefore(key, pos(ranking[i]), pos(ranking[j]))
  /\ \A c \in (1 .. n) \ ranked : \A a \in ranked : RankedBefore(key, a, c)

\* the groups in the order in which their first node is met in pre-order
GroupsInFirstEncounteredOrder(h, groups) ==
  LET first(i) == CHOOSE r \in Qualifying(h) :
                    /\ StatsKey(h[r]) = groups[i].key
                    /\ \A q \in Qualifying(h) :
                         StatsKey(h[q]) = groups[i].key => r <= q IN
  \A i, j \in 1 .. Len(groups) : i < j => first(i) < first(j)

\* C14: byTotalTime, byAverageTime and byCallCount are the first
\* min(10, number of groups) groups of the stable descending order by
\* total_time, average_time and call_count, groups with equal keys staying
\* in first-encountered order; slowCalls is the first min(15, number of
\* nodes with a positive duration) such nodes in the stable descending
\* order by duration, equal durations staying in pre-order, and holds no
\* node with an absent or non-positive duration.
C14_RankingsAreStableTopPrefixes ==
  AnalysisShown =>
    LET h == treeData.heap
        analysis == Analysis(treeData)
        groups == MethodStats(treeData)
        calls == Ascending(Qualifying(h)) IN
    /\ GroupsInFirstEncounteredOrder(h, groups)
    /\ IsTopRanking(analysis.byTotalTime, groups,
                    [ i \in 1 .. Len(groups) |-> Whole(groups[i].total_time) ],
                    10)
    /\ IsTopRanking(analysis.byAverageTime, groups,
                    [ i \in 1 .. Len(groups) |->
                        Ratio(groups[i].total_time, groups[i].call_count) ],
                    10)
    /\ IsTopRanking(analysis.byCallCount, groups,
                    [ i \in 1 .. Len(groups) |-> Whole(groups[i].call_count) ],
                    10)
    /\ IsTopRanking(analysis.slowCalls, calls,
                    [ i \in 1 .. Len(calls) |-> Whole(h[calls[i]].duration) ],
                    15)
    /\ \A i \in 1 .. Len(analysis.slowCalls) :
         /\ h[analysis.slowCalls[i]].duration # Null
         /\ h[analysis.slowCalls[i]].duration > 0

\* the analysis of a flat trace with more groups than a ranking shows and
\* more calls than slowCalls shows, the last call being the slowest
C14_Witness ==
  /\ AnalysisShown
  /\ Len(MethodStats(treeData)) > 10
  /\ Len(Analysis(treeData).byTotalTime) = 10
  /\ Cardinality(Qualifying(treeData.heap)) > 15
  /\ Len(Analysis(treeData).slowCalls) = 15
  /\ Analysis(treeData).slowCalls[1] = Len(treeData.heap)
  /\ Analysis(treeData).slowCalls[2] = 1


RECURSIVE SumOf(_)
\* sum of a sequence of numbers
SumOf(seq) == IF seq = <<>> THEN 0 ELSE Head(seq) + SumOf(Tail(seq))

\* every node of the forest has a present, positive duration
AllQualify(h) == Qualifying(h) = 1 .. Len(h)

LoadEnded ==
  lastOp' \in { "paste", "read", "staleRead",
                "pasteAlert", "readAlert", "staleReadAlert" }

\* the run ended by showing an alert or by setting the error state
ErrorReported ==
  \/ lastOp' \in { "pasteAlert", "readAlert", "staleReadAlert" }
  \/ error' # NoError

\* C16: a load of a text that is not JSON, or that parses to a value that
\* is neither an envelope nor an array of events, reports an error and
\* leaves treeData and metadata as they were, so that the application is
\* never in the loaded state with such a text.
C16_MalformedInputRejected ==
  [][ /\ docKind \in { "notJson", "scalar", "junkArray" }
      /\ LoadEnded
      => /\ ErrorReported
         /\ treeData' = treeData
         /\ metadata' = metadata
         /\ treeData'.null ]_vars

\* C17: a load of a document whose events are the empty sequence, and a
\* load of a document object without an events field, both leave the
\* application loaded with an empty forest, the tree view showing "No
\* events to display", and no error set.
C17_EmptyOrMissingEventsLoadEmptyForest ==
  [][ /\ \/ docKind = "noEvents"
         \/ docKind \in { "envelope", "array" } /\ events = <<>>
      /\ lastOp' \in { "paste", "read", "staleRead" }
      => /\ ~treeData'.null
         /\ treeData'.nodes = <<>>
         /\ activeTab' = "tree"
         /\ EmptyMessage(VisibleNodes(treeData', expandedNodes', searchTerm',
                                      showOnlyFiltered'),
                         searchTerm', showOnlyFiltered') = "No events to display"
         /\ error' = NoError ]_vars


\* C20: treeData and metadata are both null or both set in every state;
\* the document goes from empty to loaded by a load only and from loaded
\* to empty by reset only, and no load ends in the loaded state: whatever
\* the interleaving of drops, file choices, pastes, resets and completions
\* of file reads, a document on display is never replaced by another
\* without a reset in between.
C20_LoadedDocumentNeverOverwritten ==
  [][ /\ treeData'.null <=> metadata'.null
      /\ treeData.null /\ ~treeData'.null
           => lastOp' \in { "paste", "read", "staleRead" }
      /\ ~treeData.null /\ treeData'.null => lastOp' = "reset"
      /\ ~treeData.null /\ ~treeData'.null
           => /\ lastOp' \notin { "paste", "read", "staleRead" }
              /\ treeData' = treeData
              /\ metadata' = metadata ]_vars


(* ----------------------------- selection ------------------------------ *)
\* node r of the forest is in the projection: every proper ancestor is
\* expanded, and the filter is off or the node matches the search string
InProjection(h, r, expanded, term, filtered) ==
  /\ AncestorsExpanded(h, r, expanded)
  /\ (~filtered \/ MatchesByName(h[r], term))

\* C18: a click on a method card selects the first node in pre-order of
\* the group of the card, a click on a slow-call card selects the node of
\* the card, and after the click the details of that node are on display,
\* whatever the expanded set, the search string and the filter flag are.
C18_CardClickShowsNode ==
  [][ lastOp' \in { "methodCard", "callCard" } =>
        \E r \in Qualifying(treeData.heap) :
          /\ selectedNode' = treeData.heap[r].id
          /\ lastOp' = "methodCard" =>
               \A q \in Qualifying(treeData.heap) :
                 StatsKey(treeData.heap[q]) = StatsKey(treeData.heap[r]) => r <= q
          /\ SelectedNodeData(treeData',
                              VisibleNodes(treeData', expandedNodes', searchTerm',
                                           showOnlyFiltered'),
                              selectedNode') = r ]_vars

\* C19: the details on display are those of the node with the selected id
\* when that node is in the projection, and none otherwise (no selection,
\* or a selected node that is collapsed away or filtered out); expand,
\* collapse, search and filter actions leave the selected id as it is, so
\* the details are back as soon as the node is in the projection again.
C19_HiddenSelectionShowsNothing ==
  /\ [](~treeData.null =>
          LET h == treeData.heap
              shown == { r \in 1 .. Len(h) :
                           /\ h[r].id = selectedNode
                           /\ InProjection(h, r, expandedNodes, searchTerm,
                                           showOnlyFiltered) }
              selectedNodeData == SelectedNodeData(treeData, Visible, selectedNode) IN
          /\ shown = {} => selectedNodeData = NoRef
          /\ \A r \in shown : selectedNodeData = r)
  /\ [][ lastOp' \in { "toggle", "expandAll", "collapseAll", "search", "filter" }
           => selectedNode' = selectedNode ]_vars

\* a node selected from its card is filtered out and under a collapsed
\* parent after a toggle: its id is kept and no details are shown
C19_Witness ==
  /\ lastOp = "toggle"
  /\ selectedNode # NoSelection
  /\ showOnlyFiltered
  /\ SelectedNodeData(treeData, Visible, selectedNode) = NoRef
  /\ \E r \in 1 .. Len(treeData.heap) :
       /\ treeData.heap[r].id = selectedNode
       /\ treeData.heap[r].parent # NoRef
       /\ treeData.heap[treeData.heap[r].parent].id \notin expandedNodes
       /\ ~MatchesByName(treeData.heap[r], searchTerm)


\* the call and call_return events among the first n, in input order
NodeEvents(evs, n) == SelectSeq(SubSeq(evs, 1, n), IsNodeEvent)

\* what a node took over from its event when it was created
CreatedFrom(node) ==
  << node.event, node.method_name, node.depth, node.parameters,
     node.start_time >>

\* C21: for every event list, well formed or not, after each processed
\* prefix the forest holds exactly one node per call or call_return event of
\* the prefix and none for a return event (no node has event "return"), and
\* the pre-order flattening of the forest lists these nodes in the order of
\* their events: roots in first-seen order, children in call order.
C21_ForestListsNodeEventsInOrder ==
  LET flat == FlattenTree(heap, nodes)
      made == NodeEvents(events, index)
  IN  /\ Len(flat) = Len(made)
      /\ Range(flat) = 1 .. Len(heap)
      /\ \A k \in 1 .. Len(flat) :
           /\ heap[flat[k]].event # "return"
           /\ CreatedFrom(heap[flat[k]]) = CreatedFrom(made[k])
           /\ heap[flat[k]].id = NodeId(EventPos(events, k) - 1)
      /\ \A k \in 1 .. (Len(nodes) - 1) : nodes[k] < nodes[k + 1]
      /\ \A r \in 1 .. Len(heap) :
           \A k \in 1 .. (Len(heap[r].children) - 1) :
             heap[r].children[k] < heap[r].children[k + 1]

C21_Witness ==
  /\ index = MaxEvents /\ ~WellNested(events)
  /\ \E i \in 1 .. index : events[i].event = "return"
  /\ Len(heap) >= 2
  /\ \E r \in 1 .. Len(heap) : heap[r].parent # NoRef


\* the open stack holds nodes of strictly increasing depth, bottom to top
StackStrictlyDeeper ==
  \A k \in 1 .. (Len(stack) - 1) :
    heap[stack[k]].depth < heap[stack[k + 1]].depth

\* every entry of callStack is a call node on the open stack, stored under
\* the key of that node's own depth and method name
PendingCallsAreOpen ==
  \A key \in DOMAIN callStack :
    LET callNode == callStack[key] IN
      /\ callNode \in Range(stack)
      /\ heap[callNode].event = "call"
      /\ key = CallKey(heap[callNode].depth, heap[callNode].method_name)

\* the event processed last was a call event
LastIsCall == index > 0 /\ events[index].event = "call"
LastKey == CallKey(events[index].depth, events[index].method_name)

\* callStack at the moment the last call event stored its node: after the
\* pop loop of that event
CallStackAtInsert ==
  PopStack(TransformPrefix(events, index - 1), events[index].depth).callStack

\* C22: after every processed event the open stack holds nodes of strictly
\* increasing depth from bottom to top (at most one open node per depth),
\* every entry of the pending-return index refers to a call node that is on
\* the open stack and is stored under that node's own (depth, method_name)
\* key, and a call event never stores its node under a key that has an
\* entry at that moment.
C22_StackAndPendingIndexAgree ==
  /\ StackStrictlyDeeper
  /\ \A k1, k2 \in 1 .. Len(stack) :
       heap[stack[k1]].depth = heap[stack[k2]].depth => k1 = k2
  /\ PendingCallsAreOpen
  /\ LastIsCall =>
       /\ LastKey \notin DOMAIN CallStackAtInsert
       /\ callStack = SetKey(CallStackAtInsert, LastKey, Len(heap))

C22_Witness ==
  /\ LastIsCall
  /\ LastKey \in DOMAIN TransformPrefix(events, index - 1).callStack
  /\ Len(stack) >= 2
  /\ Cardinality(DOMAIN callStack) >= 2

====
